---- MODULE Spec2Model ----
(***************************************************************************)
(* Model of the server-side merge of the Ax=b Monte Carlo project:         *)
(* parse_result and check_set of server/axb_validator.cpp.                 *)
(*                                                                         *)
(* An output file is a sequence of whitespace-separated tokens.  A token   *)
(* is either numeric text (read by fscanf as the number it denotes) or     *)
(* text that no numeric conversion accepts.  The two tokens of the range   *)
(* line are decimal integers; the values are integer-valued doubles, on    *)
(* which fabs, the subtraction, the sum, the halving and the comparison    *)
(* of the quotient with 0.01 are exact.                                    *)
(***************************************************************************)
EXTENDS Integers, Sequences, FiniteSets, TLC

\* Largest number of results handed to one call of check_set.
MaxResults == 3

Abs(x) == IF x < 0 THEN -x ELSE x

(***************************************************************************)
(* Inputs: the result files a merge pass may be given.                     *)
(***************************************************************************)
Num(n) == [num |-> TRUE, v |-> n]
Junk == [num |-> FALSE, v |-> 0]

\* Three estimates of one component: A and B agree within 1%, B and C
\* agree within 1%, A and C differ by almost 2%.
Estimates == {1000, 1010, 1020}

\* A file in the format of write_output for the range [s, e], every
\* component estimated as val, followed by `extra` further value lines
\* (extra < 0: the file is cut short).
OutputText(s, e, val, extra) ==
    <<Num(s), Num(e)>> \o [k \in 1..(e - s + 1 + extra) |-> Num(val)]

File(text) == [infos |-> "ok", readable |-> TRUE, text |-> text]

SmallRanges == {<<0, 0>>, <<0, 1>>, <<1, 2>>, <<0, 2>>}
LargeRanges == {<<3, 6>>, <<4, 6>>, <<7, 11>>}

CompleteFiles ==
    {File(OutputText(r[1], r[2], val, 0)) : r \in SmallRanges, val \in Estimates}
    \cup {File(OutputText(r[1], r[2], 1000, 0)) : r \in LargeRanges}

BrokenFiles ==
    { [infos |-> "error", readable |-> FALSE, text |-> <<>>],
      [infos |-> "empty", readable |-> FALSE, text |-> <<>>],
      [infos |-> "ok", readable |-> FALSE, text |-> <<>>],
      File(<<Num(0)>>),
      File(<<Junk, Num(2), Num(1000)>>),
      File(OutputText(0, 2, 1000, -1)),
      File(<<Num(0), Num(1), Num(1000), Junk>>) }

LongFiles == { File(OutputText(0, 1, 1000, 1)) }

Submissions == CompleteFiles \cup BrokenFiles \cup LongFiles

BoundedSeq(S, n) == UNION {[1..m -> S] : m \in 0..n}

(***************************************************************************)
(* parse_result                                                            *)
(***************************************************************************)
\* fscanf "%lf" on a numeric token: the value of an integer token, or the
\* decimal [neg, digits, exp] that a d.ddde[+-]xx token denotes.
ScanLf(tok) ==
    IF "digits" \in DOMAIN tok
    THEN [neg |-> tok.neg, digits |-> tok.digits, exp |-> tok.exp]
    ELSE tok.v

ParseFailure ==
    [retval |-> -1, threw |-> FALSE, start_idx |-> 0, end_idx |-> 0,
     values |-> <<>>]

\* sol.values.resize(num_components) with num_components < 0: the int is
\* converted to a size_t above vector::max_size() and resize throws
\* std::length_error, which neither parse_result nor check_set catches.
ParseException ==
    [retval |-> 0, threw |-> TRUE, start_idx |-> 0, end_idx |-> 0,
     values |-> <<>>]

parse_result(file) ==
    IF ~file.readable THEN ParseFailure
    ELSE IF Len(file.text) < 2 \/ ~file.text[1].num \/ ~file.text[2].num
    THEN ParseFailure
    ELSE LET s == file.text[1].v
             e == file.text[2].v
             num_components == e - s + 1
         IN  IF num_components < 0 THEN ParseException
             ELSE IF \E k \in 1..num_components :
                    2 + k > Len(file.text) \/ ~file.text[2 + k].num
             THEN ParseFailure
             ELSE [retval |-> 0, threw |-> FALSE, start_idx |-> s, end_idx |-> e,
                   values |-> [k \in 1..num_components |-> ScanLf(file.text[2 + k])]]

(***************************************************************************)
(* check_set                                                               *)
(***************************************************************************)
VARIABLES results, i, solutions, component_coverage, log,
          max_idx, retry, canonicalid, credit, ret, pc

\* The solver run (main of Axb-MonteCarlo.c).
VARIABLES data, x_partial, comp_idx, walk, sum, calls, stderr, output,
          exit_status, spc
VARIABLES input, parsed
VARIABLES clock, instances
VARIABLES cmp, rw, avg_run, builds
VARIABLES total_iterations, checkpoint_data, loop_i, checkpoint_file,
          counted, saved_counted, runs, ppc

merge_vars == <<results, i, solutions, component_coverage, log,
                max_idx, retry, canonicalid, credit, ret, pc>>

solver_vars == <<data, x_partial, comp_idx, walk, sum, calls, stderr, output,
                 exit_status, spc>>

io_vars == <<input, parsed>>
seed_vars == <<clock, instances>>
pi_vars == <<total_iterations, checkpoint_data, loop_i, checkpoint_file,
             counted, saved_counted, runs, ppc>>
aux_vars == <<cmp, rw, avg_run, builds>>
vars == <<merge_vars, solver_vars, io_vars, seed_vars, pi_vars, aux_vars>>

\* What a merge pass leaves alone.
merge_frame == <<solver_vars, io_vars, seed_vars, pi_vars, aux_vars>>

\* No solver run takes part.
SolverIdle ==
    /\ data = <<>>
    /\ x_partial = <<>>
    /\ comp_idx = 0
    /\ walk = 0
    /\ sum = <<0, 1>>
    /\ calls = <<>>
    /\ stderr = <<>>
    /\ output = <<>>
    /\ exit_status = 0
    /\ spc = "idle"

\* No input file is read and no output file is parsed back.
IoIdle == input = <<>> /\ parsed = <<>>

\* No solver instance is seeded.
SeedIdle == clock = 0 /\ instances = <<>>

\* No stand-alone comparison or random walk takes part.
AuxIdle == cmp = <<>> /\ rw = <<>> /\ avg_run = <<>> /\ builds = <<>>

\* No pi_compute run takes part.
PiIdle ==
    /\ total_iterations = 0 /\ checkpoint_data = <<>> /\ loop_i = 0
    /\ checkpoint_file = <<>> /\ counted = <<>> /\ saved_counted = <<>>
    /\ runs = <<>> /\ ppc = "idle"

\* RESULT.id of results[k]: the results of one work unit have distinct ids.
ResultId(k) == k

PartialSolution(p) ==
    [start_idx |-> p.start_idx, end_idx |-> p.end_idx, values |-> p.values]

\* error > 0.01 for the values a and b, with
\* error = (avg > 1e-10) ? diff / avg : diff.
Inconsistent(a, b) ==
    LET diff == Abs(a - b)
        twice_avg == Abs(a) + Abs(b)
    IN  IF twice_avg > 0 THEN 200 * diff > twice_avg ELSE 100 * diff > 1

\* The value of component idx in the accepted solution the map points to.
PrevValue(sols, cov, idx) ==
    sols[cov[idx]].values[idx - sols[cov[idx]].start_idx + 1]

\* The overlap loop: valid stays true.
Valid(sol, sols, cov) ==
    ~ \E idx \in sol.start_idx..sol.end_idx :
          /\ idx \in DOMAIN cov
          /\ Inconsistent(sol.values[idx - sol.start_idx + 1],
                          PrevValue(sols, cov, idx))

\* Variant: the range is taken as half-open, its last index is not marked.
MarkCovered_HalfOpen(cov, sol, sol_idx) ==
    [idx \in (DOMAIN cov) \cup (sol.start_idx..(sol.end_idx - 1)) |->
        IF idx \in sol.start_idx..(sol.end_idx - 1) THEN sol_idx ELSE cov[idx]]

\* component_coverage[idx] = sol_idx for every idx of the range.
MarkCovered(cov, sol, sol_idx) ==
    [idx \in (DOMAIN cov) \cup (sol.start_idx..sol.end_idx) |->
        IF idx \in sol.start_idx..sol.end_idx THEN sol_idx ELSE cov[idx]]

MaxIdx(sols) ==
    LET ends == {0} \cup {sols[k].end_idx : k \in 1..Len(sols)}
    IN  CHOOSE m \in ends : \A x \in ends : x <= m

\* Variant: only the two ends of [0, m] are looked up.
Complete_EndsOnly(cov, m) == \A idx \in {0, m} : idx \in DOMAIN cov

Complete(cov, m) == \A idx \in 0..m : idx \in DOMAIN cov

\* Variant: num_components = end_idx - start_idx.
RECURSIVE Credit_OffByOne(_)
Credit_OffByOne(sols) ==
    IF sols = <<>> THEN 0
    ELSE Credit_OffByOne(SubSeq(sols, 1, Len(sols) - 1))
         + (sols[Len(sols)].end_idx - sols[Len(sols)].start_idx) * 10

RECURSIVE Credit(_)
Credit(sols) ==
    IF sols = <<>> THEN 0
    ELSE Credit(SubSeq(sols, 1, Len(sols) - 1))
         + (sols[Len(sols)].end_idx - sols[Len(sols)].start_idx + 1) * 10

Init ==
    /\ results \in BoundedSeq(Submissions, MaxResults)
    /\ i = 1
    /\ solutions = <<>>
    /\ component_coverage = <<>>
    /\ log = <<>>
    /\ max_idx = 0
    /\ retry = FALSE
    /\ canonicalid = 0
    /\ credit = -1
    /\ ret = 0
    /\ pc = "loop"
    /\ SolverIdle
    /\ IoIdle
    /\ SeedIdle
    /\ PiIdle
    /\ AuxIdle

InLoop == pc = "loop" /\ i <= Len(results)
AfterLoop == pc = "loop" /\ i > Len(results)

Skip(msg) ==
    /\ log' = Append(log, [result |-> ResultId(i), msg |-> msg])
    /\ i' = i + 1
    /\ UNCHANGED <<merge_frame, results, solutions, component_coverage,
                   max_idx, retry, canonicalid, credit, ret, pc>>

SkipNoFileInfos ==
    /\ InLoop
    /\ results[i].infos = "error"
    /\ Skip("Cannot get output files")

SkipNoFiles ==
    /\ InLoop
    /\ results[i].infos = "empty"
    /\ Skip("No output files")

\* Variant: a parse failure leaves the loop (break instead of continue).
SkipUnparsable_Aborts ==
    /\ InLoop
    /\ results[i].infos = "ok"
    /\ ~parse_result(results[i]).threw
    /\ parse_result(results[i]).retval < 0
    /\ log' = Append(log, [result |-> ResultId(i), msg |-> "Cannot parse result"])
    /\ i' = Len(results) + 1
    /\ UNCHANGED <<merge_frame, results, solutions, component_coverage,
                   max_idx, retry, canonicalid, credit, ret, pc>>

SkipUnparsable ==
    /\ InLoop
    /\ results[i].infos = "ok"
    /\ ~parse_result(results[i]).threw
    /\ parse_result(results[i]).retval < 0
    /\ Skip("Cannot parse result")

\* Variant: conflicts are resolved per index; the incoming solution still
\* claims the indices of its range that nobody had claimed.
RejectInconsistent_PerIndex ==
    /\ InLoop
    /\ results[i].infos = "ok"
    /\ ~parse_result(results[i]).threw
    /\ parse_result(results[i]).retval = 0
    /\ LET sol == PartialSolution(parse_result(results[i]))
       IN  /\ ~Valid(sol, solutions, component_coverage)
           /\ solutions' = Append(solutions, sol)
           /\ component_coverage' =
                  [idx \in (DOMAIN component_coverage)
                             \cup (sol.start_idx..sol.end_idx) |->
                      IF idx \in DOMAIN component_coverage
                      THEN component_coverage[idx]
                      ELSE Len(solutions) + 1]
    /\ log' = Append(log, [result |-> ResultId(i), msg |-> "Inconsistent values"])
    /\ i' = i + 1
    /\ UNCHANGED <<merge_frame, results, max_idx, retry, canonicalid, credit, ret, pc>>

RejectInconsistent ==
    /\ InLoop
    /\ results[i].infos = "ok"
    /\ ~parse_result(results[i]).threw
    /\ parse_result(results[i]).retval = 0
    /\ ~Valid(parse_result(results[i]), solutions, component_coverage)
    /\ Skip("Inconsistent values")

AcceptSolution ==
    /\ InLoop
    /\ results[i].infos = "ok"
    /\ ~parse_result(results[i]).threw
    /\ parse_result(results[i]).retval = 0
    /\ LET sol == PartialSolution(parse_result(results[i]))
       IN  /\ Valid(sol, solutions, component_coverage)
           /\ solutions' = Append(solutions, sol)
           /\ component_coverage' =
                  MarkCovered(component_coverage, sol, Len(solutions) + 1)
    /\ i' = i + 1
    /\ UNCHANGED <<merge_frame, results, log, max_idx, retry, canonicalid, credit, ret, pc>>

\* Variant: the failure is returned without setting retry.
FailNoValid_NoRetry ==
    /\ AfterLoop
    /\ solutions = <<>>
    /\ ret' = -1
    /\ pc' = "done"
    /\ UNCHANGED <<merge_frame, results, i, solutions, component_coverage, log,
                   max_idx, retry, canonicalid, credit>>

FailNoValid ==
    /\ AfterLoop
    /\ solutions = <<>>
    /\ retry' = TRUE
    /\ ret' = -1
    /\ pc' = "done"
    /\ UNCHANGED <<merge_frame, results, i, solutions, component_coverage, log,
                   max_idx, canonicalid, credit>>

\* Variant: the canonical result is marked before coverage is checked.
FailIncomplete_MarksCanonical ==
    /\ AfterLoop
    /\ solutions # <<>>
    /\ max_idx' = MaxIdx(solutions)
    /\ ~Complete(component_coverage, max_idx')
    /\ canonicalid' = ResultId(1)
    /\ retry' = TRUE
    /\ ret' = -1
    /\ pc' = "done"
    /\ UNCHANGED <<merge_frame, results, i, solutions, component_coverage, log,
                   credit>>

FailIncomplete ==
    /\ AfterLoop
    /\ solutions # <<>>
    /\ max_idx' = MaxIdx(solutions)
    /\ ~Complete(component_coverage, max_idx')
    /\ retry' = TRUE
    /\ ret' = -1
    /\ pc' = "done"
    /\ UNCHANGED <<merge_frame, results, i, solutions, component_coverage, log,
                   canonicalid, credit>>

\* Variant: credit is granted per covered component, not per submitted one.
Succeed_CreditsCoverage ==
    /\ AfterLoop
    /\ solutions # <<>>
    /\ max_idx' = MaxIdx(solutions)
    /\ Complete(component_coverage, max_idx')
    /\ canonicalid' = ResultId(1)
    /\ credit' = 10 * Cardinality(DOMAIN component_coverage)
    /\ ret' = 0
    /\ pc' = "done"
    /\ UNCHANGED <<merge_frame, results, i, solutions, component_coverage, log, retry>>

Succeed ==
    /\ AfterLoop
    /\ solutions # <<>>
    /\ max_idx' = MaxIdx(solutions)
    /\ Complete(component_coverage, max_idx')
    /\ canonicalid' = ResultId(1)
    /\ credit' = Credit(solutions)
    /\ ret' = 0
    /\ pc' = "done"
    /\ UNCHANGED <<merge_frame, results, i, solutions, component_coverage, log, retry>>

Next ==
    \/ SkipNoFileInfos
    \/ SkipNoFiles
    \/ SkipUnparsable
    \/ RejectInconsistent
    \/ AcceptSolution
    \/ FailNoValid
    \/ FailIncomplete
    \/ Succeed

Spec == Init /\ [][Next]_vars

(***************************************************************************)
(* The merge pass over arbitrary range lines, including ranges whose       *)
(* end_idx lies below start_idx.                                           *)
(***************************************************************************)
MaxAnyResults == 2

InvertedFiles == { File(<<Num(2), Num(1)>>), File(<<Num(3), Num(1)>>) }

\* A range that starts below component 0.
BelowZeroFiles == { File(OutputText(-1, 0, 1000, 0)) }

AnySubmissions == Submissions \cup InvertedFiles \cup BelowZeroFiles

InitAny ==
    /\ results \in BoundedSeq(AnySubmissions, MaxAnyResults)
    /\ i = 1
    /\ solutions = <<>>
    /\ component_coverage = <<>>
    /\ log = <<>>
    /\ max_idx = 0
    /\ retry = FALSE
    /\ canonicalid = 0
    /\ credit = -1
    /\ ret = 0
    /\ pc = "loop"
    /\ SolverIdle
    /\ IoIdle
    /\ SeedIdle
    /\ PiIdle
    /\ AuxIdle

\* The exception leaves check_set without a return value.
ParseThrows ==
    /\ InLoop
    /\ results[i].infos = "ok"
    /\ parse_result(results[i]).threw
    /\ pc' = "aborted"
    /\ UNCHANGED <<merge_frame, results, i, solutions, component_coverage, log,
                   max_idx, retry, canonicalid, credit, ret>>

NextAny ==
    \/ SkipNoFileInfos
    \/ SkipNoFiles
    \/ SkipUnparsable
    \/ ParseThrows
    \/ RejectInconsistent
    \/ AcceptSolution
    \/ FailNoValid
    \/ FailIncomplete
    \/ Succeed

SpecAny == InitAny /\ [][NextAny]_vars

TypeOK ==
    /\ i \in 1..(Len(results) + 1)
    /\ Len(solutions) <= Len(results)
    /\ pc \in {"loop", "done", "aborted"}
    /\ ret \in {0, -1}
    /\ retry \in BOOLEAN

(***************************************************************************)
(* What a submission says, read off its text, and what the pass did with   *)
(* it, read off the log.                                                   *)
(***************************************************************************)
HasRange(file) ==
    /\ file.infos = "ok"
    /\ file.readable
    /\ Len(file.text) >= 2
    /\ file.text[1].num
    /\ file.text[2].num

DeclStart(file) == file.text[1].v
DeclEnd(file) == file.text[2].v
DeclLen(file) == DeclEnd(file) - DeclStart(file) + 1

\* The value lines of the file: the numeric tokens that follow the range.
RECURSIVE NumericPrefix(_)
NumericPrefix(toks) ==
    IF toks = <<>> \/ ~toks[1].num THEN <<>>
    ELSE <<toks[1].v>> \o NumericPrefix(Tail(toks))

SuppliedValues(file) == NumericPrefix(SubSeq(file.text, 3, Len(file.text)))
ValueCount(file) == Len(SuppliedValues(file))

\* No output file, unopenable file, unreadable range line, too few values.
Malformed(file) == ~HasRange(file) \/ ValueCount(file) < DeclLen(file)

Processed(k) == k \in 1..(i - 1)
LogOf(k) == {log[e].msg : e \in {x \in 1..Len(log) : log[x].result = ResultId(k)}}
Accepted(k) == Processed(k) /\ LogOf(k) = {}
Rejected(k) == Processed(k) /\ "Inconsistent values" \in LogOf(k)
AcceptedResults == {k \in 1..Len(results) : Accepted(k)}

Claimed == DOMAIN component_coverage
ClaimedValue(idx) == PrevValue(solutions, component_coverage, idx)
ClaimedValues == [idx \in Claimed |-> ClaimedValue(idx)]

JustRejected ==
    /\ Len(log') = Len(log) + 1
    /\ log'[Len(log')].msg = "Inconsistent values"

(***************************************************************************)
(* C1: when an incoming solution differs by more than 1% from the claimed  *)
(* value of an index it shares with an earlier accepted solution, it is    *)
(* rejected and the earlier solution stays accepted with every index of    *)
(* its range still claimed with its own values.                            *)
(***************************************************************************)
ConflictsWith(sol, idx) ==
    /\ idx \in sol.start_idx..sol.end_idx
    /\ idx \in Claimed
    /\ Inconsistent(sol.values[idx - sol.start_idx + 1], ClaimedValue(idx))

C1_FirstWriterKept ==
    [][ (InLoop /\ HasRange(results[i]) /\ parse_result(results[i]).retval = 0)
        => \A idx \in Claimed :
             ConflictsWith(parse_result(results[i]), idx)
             => LET p == component_coverage[idx]
                    earlier == solutions[p]
                IN  /\ JustRejected
                    /\ Len(solutions') >= p
                    /\ solutions'[p] = earlier
                    /\ \A j \in earlier.start_idx..earlier.end_idx :
                          /\ j \in DOMAIN component_coverage'
                          /\ PrevValue(solutions', component_coverage', j)
                                = earlier.values[j - earlier.start_idx + 1]
      ]_vars

(***************************************************************************)
(* C2: a rejection for an inconsistent overlap leaves the coverage map,    *)
(* the list of accepted solutions and the credit exactly as they were, and *)
(* none of the rejected solution's indices is claimed on its behalf.       *)
(***************************************************************************)
C2_RejectionAllOrNothing ==
    [][ JustRejected
        => /\ solutions' = solutions
           /\ component_coverage' = component_coverage
           /\ credit' = credit
           /\ i' = i + 1
      ]_vars

\* A rejected solution covered an index that nobody claims at the end.
C2_Witness ==
    /\ pc = "done"
    /\ \E k \in 1..Len(results) :
          /\ Rejected(k)
          /\ \E idx \in DeclStart(results[k])..DeclEnd(results[k]) :
                idx \notin Claimed
          /\ \E idx \in DeclStart(results[k])..DeclEnd(results[k]) :
                idx \in Claimed

(***************************************************************************)
(* C3: once an index is claimed, the value the coverage map gives it never *)
(* changes for the rest of the pass.                                       *)
(***************************************************************************)
C3_ClaimNeverChanges ==
    [][ \A idx \in Claimed :
          /\ idx \in DOMAIN component_coverage'
          /\ PrevValue(solutions', component_coverage', idx) = ClaimedValue(idx)
      ]_vars

(***************************************************************************)
(* C4: with max_idx the highest end index among the accepted solutions,    *)
(* the pass succeeds only if every index of [0, max_idx] is claimed; a     *)
(* gap gives failure with retry = true.                                    *)
(***************************************************************************)
AcceptedEnds == {DeclEnd(results[k]) : k \in AcceptedResults}
HighestEnd == CHOOSE m \in AcceptedEnds : \A x \in AcceptedEnds : x <= m

C4_GapIsRetryableFailure ==
    (pc = "done" /\ AcceptedResults # {})
    => /\ max_idx = HighestEnd
       /\ ret = 0 => \A idx \in 0..HighestEnd : idx \in Claimed
       /\ (\E idx \in 0..HighestEnd : idx \notin Claimed)
             => (ret = -1 /\ retry = TRUE)

C4_Witness ==
    /\ pc = "done"
    /\ Len(results) = 2
    /\ Accepted(1) /\ DeclStart(results[1]) = 0 /\ DeclEnd(results[1]) = 2
    /\ Accepted(2) /\ DeclStart(results[2]) = 4 /\ DeclEnd(results[2]) = 6
    /\ max_idx = 6
    /\ 3 \notin Claimed
    /\ ret = -1
    /\ retry = TRUE

(***************************************************************************)
(* C5: if no submission is accepted, the pass fails with retry = true.     *)
(***************************************************************************)
C5_NoValidResults ==
    (pc = "done" /\ AcceptedResults = {}) => (ret = -1 /\ retry = TRUE)

C5_Witness ==
    /\ pc = "done"
    /\ Len(results) = MaxResults
    /\ \A k \in 1..Len(results) : Malformed(results[k])
    /\ {results[k].infos : k \in 1..Len(results)} = {"error", "empty", "ok"}
    /\ ret = -1
    /\ retry = TRUE

(***************************************************************************)
(* C6: well-formed solutions whose ranges are pairwise disjoint and cover  *)
(* exactly [0, n-1], in any arrival order, merge successfully: all are     *)
(* accepted and every index is claimed with the value its one solution     *)
(* supplied.                                                               *)
(***************************************************************************)
WellFormed(file) ==
    /\ HasRange(file)
    /\ DeclLen(file) >= 1
    /\ Len(file.text) = 2 + DeclLen(file)
    /\ ValueCount(file) = DeclLen(file)

DeclRange(file) == DeclStart(file)..DeclEnd(file)

IsPartition(files) ==
    /\ files # <<>>
    /\ \A k \in 1..Len(files) : WellFormed(files[k])
    /\ \A k, l \in 1..Len(files) :
          k # l => DeclRange(files[k]) \cap DeclRange(files[l]) = {}
    /\ \E n \in 1..(MaxResults * 12) :
          UNION {DeclRange(files[k]) : k \in 1..Len(files)} = 0..(n - 1)

C6_PartitionRoundTrip ==
    (pc = "done" /\ IsPartition(results))
    => /\ ret = 0
       /\ Len(solutions) = Len(results)
       /\ \A k \in 1..Len(results) :
             /\ Accepted(k)
             /\ \A idx \in DeclRange(results[k]) :
                   /\ idx \in Claimed
                   /\ ClaimedValue(idx)
                         = SuppliedValues(results[k])[idx - DeclStart(results[k]) + 1]
       /\ Claimed = UNION {DeclRange(results[k]) : k \in 1..Len(results)}

\* A partition of [0, 11] into three ranges that arrive out of order.
C6_Witness ==
    /\ pc = "done"
    /\ IsPartition(results)
    /\ Len(results) = 3
    /\ DeclStart(results[1]) > DeclStart(results[3])
    /\ DeclStart(results[3]) > DeclStart(results[2])
    /\ ret = 0
    /\ Claimed = 0..11

(***************************************************************************)
(* C7: on success the credit is 10 times the sum of the component counts   *)
(* of the accepted solutions only.                                         *)
(***************************************************************************)
RECURSIVE SumDeclLen(_)
SumDeclLen(ks) ==
    IF ks = {} THEN 0
    ELSE LET k == CHOOSE x \in ks : TRUE
         IN  DeclLen(results[k]) + SumDeclLen(ks \ {k})

C7_CreditIsTenPerComponent ==
    (pc = "done" /\ ret = 0) => credit = 10 * SumDeclLen(AcceptedResults)

\* Ranges of sizes 3, 4 and 5.
C7_Witness ==
    /\ pc = "done"
    /\ ret = 0
    /\ Len(results) = 3
    /\ AcceptedResults = {1, 2, 3}
    /\ {DeclLen(results[k]) : k \in 1..3} = {3, 4, 5}
    /\ credit = 120

(***************************************************************************)
(* C8: on success canonicalid is the id of the first accepted result.      *)
(***************************************************************************)
C8_CanonicalIsContributing ==
    (pc = "done" /\ ret = 0)
    => \E k \in AcceptedResults :
          /\ canonicalid = ResultId(k)
          /\ \A j \in AcceptedResults : k <= j

(***************************************************************************)
(* C9: malformed submissions are skipped without aborting the pass: the    *)
(* decisions on the other submissions, the claimed values, the credit and  *)
(* the retry flag are those of the pass over the sequence without them.    *)
(***************************************************************************)
RECURSIVE MergeOf(_, _)
MergeOf(files, st) ==
    IF files = <<>> THEN st
    ELSE LET p == parse_result(Head(files))
             sol == PartialSolution(p)
         IN  IF Head(files).infos # "ok" \/ p.retval < 0
             THEN MergeOf(Tail(files),
                          [st EXCEPT !.decisions = Append(@, "skipped")])
             ELSE IF ~Valid(sol, st.solutions, st.coverage)
             THEN MergeOf(Tail(files),
                          [st EXCEPT !.decisions = Append(@, "rejected")])
             ELSE MergeOf(Tail(files),
                          [solutions |-> Append(st.solutions, sol),
                           coverage |-> MarkCovered(st.coverage, sol,
                                                    Len(st.solutions) + 1),
                           decisions |-> Append(st.decisions, "accepted")])

OutcomeOf(st) ==
    LET ok == st.solutions # <<>>
                /\ Complete(st.coverage, MaxIdx(st.solutions))
    IN  [values |-> [idx \in DOMAIN st.coverage |->
                        PrevValue(st.solutions, st.coverage, idx)],
         decisions |-> st.decisions,
         retry |-> ~ok,
         credit |-> IF ok THEN Credit(st.solutions) ELSE -1]

DecisionOn(k) ==
    IF Accepted(k) THEN "accepted"
    ELSE IF Rejected(k) THEN "rejected" ELSE "skipped"

RECURSIVE DecisionsOnOthers(_)
DecisionsOnOthers(k) ==
    IF k = 0 THEN <<>>
    ELSE IF Malformed(results[k]) THEN DecisionsOnOthers(k - 1)
    ELSE Append(DecisionsOnOthers(k - 1), DecisionOn(k))

NotMalformed(file) == ~Malformed(file)

C9_MalformedIsSkipped ==
    pc = "done"
    => [values |-> ClaimedValues,
        decisions |-> DecisionsOnOthers(Len(results)),
        retry |-> retry,
        credit |-> credit]
       = OutcomeOf(MergeOf(SelectSeq(results, NotMalformed),
                           [solutions |-> <<>>, coverage |-> <<>>,
                            decisions |-> <<>>]))

\* A malformed submission between two accepted ones of a successful pass.
C9_Witness ==
    /\ pc = "done"
    /\ Len(results) = 3
    /\ Accepted(1)
    /\ Malformed(results[2])
    /\ Accepted(3)
    /\ ret = 0

(***************************************************************************)
(* C10: a submission whose number of values differs from its declared      *)
(* range length, in either direction, is discarded and claims no index.    *)
(***************************************************************************)
C10_LengthMismatchDiscarded ==
    \A k \in 1..Len(results) :
        (Processed(k) /\ HasRange(results[k])
            /\ ValueCount(results[k]) # DeclLen(results[k]))
        => ~Accepted(k)

(***************************************************************************)
(* C11: the merge never reports a complete solution while some component   *)
(* of the task's range 0..n-1 has no accepted value; a lone accepted       *)
(* solution over a proper sub-range gives failure with retry = true.       *)
(***************************************************************************)
\* The dimension n of the task whose components the result files cover.
TaskDim ==
    LET ends == {r[2] : r \in SmallRanges \cup LargeRanges}
    IN  1 + CHOOSE m \in ends : \A x \in ends : x <= m

C11_SubRangeIsIncomplete ==
    (pc = "done" /\ \E idx \in 0..(TaskDim - 1) : idx \notin Claimed)
    => (ret = -1 /\ retry = TRUE)

(***************************************************************************)
(* C12: whatever the submissions, a merge pass returns success or a        *)
(* failure with retry = true; it never aborts.                             *)
(***************************************************************************)
C12_NeverAborts ==
    /\ pc # "aborted"
    /\ pc = "done" => (ret = 0 \/ (ret = -1 /\ retry = TRUE))

(***************************************************************************)
(* The solver, src/Axb-MonteCarlo.c.                                       *)
(*                                                                         *)
(* The entries of A and b are integer multiples of 2^-43 (about 1.1e-13),  *)
(* written as that integer.  Quotients, sums and products are rationals    *)
(* <<numerator, denominator>> in lowest terms with a positive denominator; *)
(* the arithmetic is that of the reals, rounding is not modelled.          *)
(***************************************************************************)
RECURSIVE GCD(_, _)
GCD(a, b) == IF b = 0 THEN a ELSE GCD(b, a % b)

QNorm(n, d) ==
    LET g == GCD(Abs(n), Abs(d))
    IN  IF d < 0 THEN <<(0 - n) \div g, (0 - d) \div g>>
        ELSE <<n \div g, d \div g>>

QZero == <<0, 1>>
QOne == <<1, 1>>
QInt(k) == <<k, 1>>
QAdd(p, q) == QNorm(p[1] * q[2] + q[1] * p[2], p[2] * q[2])
QMul(p, q) == QNorm(p[1] * q[1], p[2] * q[2])
QDiv(p, q) == QNorm(p[1] * q[2], p[2] * q[1])
QAbs(p) == <<Abs(p[1]), p[2]>>
QLess(p, q) == p[1] * q[2] < q[1] * p[2]

\* A field of MonteCarloData that has not been assigned.
Unset == <<0, 0>>

\* MAX_STEPS of random_walk (10000 in the source), scaled down.
MAX_STEPS == 3

\* Largest num_walks of a task.
MaxWalks == 2

\* fabs(diag) < 1e-12 for a diagonal of `diag` units of 2^-43:
\* 1e-12 is 8.796 units, so the test is |diag| <= 8.
DiagEps == 9

Dims == {1, 2}
DiagValues == {8, 16, -32}
OffValues == {0, -16}
BValues == {16, -32}

Rows(n) == 0..(n - 1)

Matrices(n) ==
    {M \in [Rows(n) -> [Rows(n) -> DiagValues \cup OffValues]] :
        \A r, c \in Rows(n) :
            IF r = c THEN M[r][c] \in DiagValues ELSE M[r][c] \in OffValues}

\* MonteCarloData after read_input has returned 0.
TaskData(n, A, b, s, e, w) ==
    [n |-> n, A |-> A, b |-> b,
     C |-> [r \in Rows(n) |-> [c \in Rows(n) |-> Unset]],
     f |-> [r \in Rows(n) |-> Unset],
     row_sum |-> [r \in Rows(n) |-> Unset],
     start_idx |-> s, end_idx |-> e, num_walks |-> w]

\* Right-hand sides: neighbouring entries differ.
Vectors(n) ==
    {v \in [Rows(n) -> BValues] : \A r \in Rows(n) \ {0} : v[r] # v[r - 1]}

Tasks ==
    UNION {{TaskData(n, A, b, s, e, w) :
                A \in Matrices(n), b \in Vectors(n),
                s \in Rows(n), e \in Rows(n), w \in 1..MaxWalks}
           : n \in Dims}

ValidTasks == {t \in Tasks : t.start_idx <= t.end_idx}

(***************************************************************************)
(* prepare_iteration_form                                                  *)
(***************************************************************************)
RECURSIVE SumAbs(_, _)
SumAbs(row, n) ==
    IF n = 0 THEN QZero ELSE QAdd(SumAbs(row, n - 1), QAbs(row[n - 1]))

\* Variant: only an exactly zero diagonal is refused.
IsZeroDiag_ExactZero(diag) == diag = 0

IsZeroDiag(diag) == Abs(diag) < DiagEps

\* Variant: the diagonal entry of C keeps -A[r][r] / diag.
IterationRow_KeepsDiagonal(d, r) ==
    [c \in Rows(d.n) |-> QDiv(QInt(0 - d.A[r][c]), QInt(d.A[r][r]))]

IterationRow(d, r) ==
    [c \in Rows(d.n) |->
        IF r = c THEN QZero ELSE QDiv(QInt(0 - d.A[r][c]), QInt(d.A[r][r]))]

\* Variant: the warning is given for row sums above 1 only.
RowWarning_Strict(rs) == QLess(QOne, rs)

RowWarning(rs) == ~QLess(rs, QOne)

RECURSIVE PrepareRows(_, _, _)
PrepareRows(d, r, msgs) ==
    IF r >= d.n THEN [retval |-> 0, data |-> d, msgs |-> msgs]
    ELSE IF IsZeroDiag(d.A[r][r])
    THEN [retval |-> -1, data |-> d,
          msgs |-> Append(msgs, [msg |-> "Error: Zero diagonal element",
                                 row |-> r])]
    ELSE LET crow == IterationRow(d, r)
             rs == SumAbs(crow, d.n)
             d2 == [d EXCEPT !.f[r] = QDiv(QInt(d.b[r]), QInt(d.A[r][r])),
                             !.C[r] = crow,
                             !.row_sum[r] = rs]
         IN  PrepareRows(d2, r + 1,
                 IF RowWarning(rs)
                 THEN Append(msgs, [msg |-> "Warning: Row has sum >= 1",
                                    row |-> r])
                 ELSE msgs)

prepare_iteration_form(d) == PrepareRows(d, 0, <<>>)

(***************************************************************************)
(* random_walk, on the sequence of values rand_double returns to it        *)
(***************************************************************************)
TERMINATION_PROB == <<1, 10>>

\* row_sum < 1e-12: a positive rational whose denominator is below 2^31
\* is above 1e-12.
NoTransitions(rs) == rs[1] <= 0

RECURSIVE CumSum(_, _)
CumSum(row, j) ==
    IF j < 0 THEN QZero ELSE QAdd(CumSum(row, j - 1), QAbs(row[j]))

\* The indices j at which the selection loop finds r <= cumsum.
Hits(d, cur, r) ==
    {j \in Rows(d.n) : ~QLess(CumSum(d.C[cur], j), r)}

MinOf(S) == CHOOSE m \in S : \A x \in S : m <= x

RECURSIVE WalkFrom(_, _, _, _, _, _)
WalkFrom(d, cur, weight, acc, step, draws) ==
    IF step >= MAX_STEPS
    THEN [ended |-> TRUE, sum |-> acc, rest |-> draws, steps |-> step]
    ELSE LET acc2 == QAdd(acc, QMul(weight, d.f[cur]))
         IN  IF draws = <<>>
             THEN [ended |-> FALSE, sum |-> acc2, rest |-> draws, steps |-> step]
             ELSE IF QLess(Head(draws), TERMINATION_PROB)
                     \/ NoTransitions(d.row_sum[cur])
             THEN [ended |-> TRUE, sum |-> acc2, rest |-> Tail(draws),
                   steps |-> step + 1]
             ELSE IF Len(draws) < 2
             THEN [ended |-> FALSE, sum |-> acc2, rest |-> draws, steps |-> step]
             ELSE LET r == QMul(draws[2], d.row_sum[cur])
                      hits == Hits(d, cur, r)
                      j == MinOf(hits)
                  IN  IF hits = {}
                      THEN WalkFrom(d, cur, weight, acc2, step + 1,
                                    Tail(Tail(draws)))
                      ELSE WalkFrom(d, j,
                               QMul(QMul(weight,
                                         IF d.C[cur][j][1] >= 0
                                         THEN QOne ELSE QInt(-1)),
                                    QDiv(d.row_sum[cur],
                                         QAdd(QOne, QMul(QInt(-1),
                                                         TERMINATION_PROB)))),
                               acc2, step + 1, Tail(Tail(draws)))

random_walk(d, start_state, draws) ==
    WalkFrom(d, start_state, QOne, QZero, 0, draws)

\* Values of rand_double: one below TERMINATION_PROB, one above.
DrawValues == {<<1, 20>>, <<1, 2>>}

\* The draws of a walk of the solver run: every draw is 1/2 until a
\* last one, which may be any of DrawValues.
RunDraws ==
    {[k \in 1..m |-> <<1, 2>>] \o tail :
        m \in 0..(2 * MAX_STEPS), tail \in {<<>>} \cup {<<v>> : v \in DrawValues}}

(***************************************************************************)
(* fprintf "%.15e": the decimal with 16 significant digits nearest to the  *)
(* value, as the token [neg, digits, exp] for                              *)
(* [-]d.ddddddddddddddde[+-]xx.                                            *)
(***************************************************************************)
SigDigits == 16

RECURSIVE Normalise(_, _, _)
Normalise(a, d, e) ==
    IF a >= 10 * d THEN Normalise(a, 10 * d, e + 1)
    ELSE IF a < d THEN Normalise(10 * a, d, e - 1)
    ELSE [a |-> a, d |-> d, exp |-> e]

RECURSIVE LongDiv(_, _, _)
LongDiv(a, d, k) ==
    IF k = 0 THEN [digits |-> <<>>, rem |-> a \div 10]
    ELSE LET rest == LongDiv((a % d) * 10, d, k - 1)
         IN  [digits |-> <<a \div d>> \o rest.digits, rem |-> rest.rem]

RECURSIVE Increment(_, _)
Increment(digits, k) ==
    IF k = 0 THEN digits
    ELSE IF digits[k] < 9 THEN [digits EXCEPT ![k] = digits[k] + 1]
    ELSE Increment([digits EXCEPT ![k] = 0], k - 1)

Format15e(q) ==
    IF q[1] = 0
    THEN [num |-> TRUE, neg |-> FALSE, digits |-> [k \in 1..SigDigits |-> 0],
          exp |-> 0]
    ELSE LET m == Normalise(Abs(q[1]), q[2], 0)
             ld == LongDiv(m.a, m.d, SigDigits)
             up == 2 * ld.rem > m.d
                   \/ (2 * ld.rem = m.d /\ ld.digits[SigDigits] % 2 = 1)
             carry == up /\ \A k \in 1..SigDigits : ld.digits[k] = 9
         IN  [num |-> TRUE, neg |-> q[1] < 0,
              digits |-> IF carry THEN [k \in 1..SigDigits |-> IF k = 1 THEN 1 ELSE 0]
                         ELSE IF up THEN Increment(ld.digits, SigDigits)
                         ELSE ld.digits,
              exp |-> IF carry THEN m.exp + 1 ELSE m.exp]

(***************************************************************************)
(* main of the solver from the return of read_input on                     *)
(***************************************************************************)
MergeIdle ==
    /\ results = <<>> /\ i = 1 /\ solutions = <<>> /\ component_coverage = <<>>
    /\ log = <<>> /\ max_idx = 0 /\ retry = FALSE /\ canonicalid = 0
    /\ credit = -1 /\ ret = 0 /\ pc = "idle"

solver_frame == <<merge_vars, io_vars, seed_vars, pi_vars, aux_vars>>

Message(text) == [msg |-> text, row |-> -1]

num_components == data.end_idx - data.start_idx + 1

SolverInit ==
    /\ MergeIdle
    /\ IoIdle
    /\ SeedIdle
    /\ PiIdle
    /\ AuxIdle
    /\ data \in ValidTasks
    /\ x_partial = <<>>
    /\ comp_idx = 0 /\ walk = 0 /\ sum = QZero
    /\ calls = <<>> /\ stderr = <<>> /\ output = <<>>
    /\ exit_status = -1
    /\ spc = "prepare"

PrepareFails ==
    /\ spc = "prepare"
    /\ prepare_iteration_form(data).retval < 0
    /\ data' = prepare_iteration_form(data).data
    /\ stderr' = stderr \o prepare_iteration_form(data).msgs
                   \o <<Message("Failed to prepare iteration form")>>
    /\ exit_status' = 1
    /\ spc' = "exited"
    /\ UNCHANGED <<solver_frame, x_partial, comp_idx, walk, sum, calls, output>>

PrepareSucceeds ==
    /\ spc = "prepare"
    /\ prepare_iteration_form(data).retval >= 0
    /\ data' = prepare_iteration_form(data).data
    /\ stderr' = stderr \o prepare_iteration_form(data).msgs
    /\ comp_idx' = 0 /\ walk' = 0 /\ sum' = QZero
    /\ spc' = "compute"
    /\ UNCHANGED <<solver_frame, x_partial, calls, output, exit_status>>

\* Variant: every walk starts at the offset into the range, not at the
\* component index.
WalkStart_Offset == comp_idx

WalkStart == data.start_idx + comp_idx

Walk ==
    /\ spc = "compute"
    /\ comp_idx < num_components
    /\ walk < data.num_walks
    /\ \E draws \in RunDraws :
          LET w == random_walk(data, WalkStart, draws)
          IN  /\ w.ended /\ w.rest = <<>>
              /\ sum' = QAdd(sum, w.sum)
              /\ calls' = Append(calls, [start_state |-> WalkStart,
                                         sample |-> w.sum])
    /\ walk' = walk + 1
    /\ UNCHANGED <<solver_frame, data, x_partial, comp_idx, stderr, output,
                   exit_status, spc>>

FinishComponent ==
    /\ spc = "compute"
    /\ comp_idx < num_components
    /\ walk >= data.num_walks
    /\ x_partial' = [k \in 1..(comp_idx + 1) |->
                        IF k = comp_idx + 1
                        THEN QDiv(sum, QInt(data.num_walks))
                        ELSE x_partial[k]]
    /\ comp_idx' = comp_idx + 1 /\ walk' = 0 /\ sum' = QZero
    /\ UNCHANGED <<solver_frame, data, calls, stderr, output, exit_status, spc>>

ComputeDone ==
    /\ spc = "compute"
    /\ comp_idx >= num_components
    /\ spc' = "write"
    /\ UNCHANGED <<solver_frame, data, x_partial, comp_idx, walk, sum, calls,
                   stderr, output, exit_status>>

\* Variant: the first line gives the start and the number of values.
write_output_Count(d, x) ==
    <<Num(d.start_idx), Num(d.end_idx - d.start_idx + 1)>>
        \o [k \in 1..(d.end_idx - d.start_idx + 1) |-> Format15e(x[k])]

write_output(d, x) ==
    <<Num(d.start_idx), Num(d.end_idx)>>
        \o [k \in 1..(d.end_idx - d.start_idx + 1) |-> Format15e(x[k])]

WriteOutput ==
    /\ spc = "write"
    /\ output' = write_output(data, x_partial)
    /\ exit_status' = 0
    /\ spc' = "exited"
    /\ UNCHANGED <<solver_frame, data, x_partial, comp_idx, walk, sum, calls,
                   stderr>>

WriteOutputFails ==
    /\ spc = "write"
    /\ stderr' = stderr \o <<Message("Error: Cannot create output file"),
                             Message("Failed to write output")>>
    /\ exit_status' = 1
    /\ spc' = "exited"
    /\ UNCHANGED <<solver_frame, data, x_partial, comp_idx, walk, sum, calls,
                   output>>

SolverNext ==
    \/ PrepareFails
    \/ PrepareSucceeds
    \/ Walk
    \/ FinishComponent
    \/ ComputeDone
    \/ WriteOutput
    \/ WriteOutputFails

SolverSpec == SolverInit /\ [][SolverNext]_vars

(***************************************************************************)
(* Claims about the solver                                                 *)
(***************************************************************************)
AllDiagonalsUsable(d) == \A r \in Rows(d.n) : Abs(d.A[r][r]) >= DiagEps

AtLeastOne(q) == q[1] >= q[2] /\ q[2] > 0

RECURSIVE AbsRowTotal(_, _)
AbsRowTotal(row, cols) ==
    IF cols = {} THEN QZero
    ELSE LET c == CHOOSE x \in cols : TRUE
         IN  QAdd(QAbs(row[c]), AbsRowTotal(row, cols \ {c}))

IsIterationForm(d, A, b) ==
    \A r \in Rows(d.n) :
        /\ QMul(d.f[r], QInt(A[r][r])) = QInt(b[r])
        /\ \A c \in Rows(d.n) \ {r} :
              QMul(d.C[r][c], QInt(A[r][r])) = QInt(0 - A[r][c])
        /\ d.C[r][r] = QZero
        /\ d.row_sum[r] = AbsRowTotal(d.C[r], Rows(d.n))

\* C13: when every diagonal entry of A has magnitude at least 1e-12,
\* prepare_iteration_form succeeds and leaves f[i] = b[i]/A[i][i],
\* C[i][j] = -A[i][j]/A[i][i] for j # i, C[i][i] = 0 and
\* row_sum[i] = sum over j of |C[i][j]|, all of them determined by A and b
\* alone, and A and b are as they were.
C13_IterationForm ==
    [][(spc = "prepare" /\ AllDiagonalsUsable(data))
        => /\ spc' = "compute"
           /\ data'.A = data.A /\ data'.b = data.b /\ data'.n = data.n
           /\ IsIterationForm(data', data.A, data.b)]_vars

C13_Witness ==
    /\ spc = "compute" /\ calls = <<>> /\ data.n = 2
    /\ data.C[0][1] # QZero /\ data.C[1][0] = QZero
    /\ data.f[0] # data.f[1]

\* C14: when some diagonal entry of A has magnitude below 1e-12 the
\* preparation fails: the run ends with a non-zero exit status, having
\* done no random walk and written no output file.
C14_ZeroDiagonalIsFatal ==
    (\E r \in Rows(data.n) : Abs(data.A[r][r]) < DiagEps)
        => \/ spc = "prepare"
           \/ /\ spc = "exited" /\ exit_status > 0
              /\ calls = <<>> /\ x_partial = <<>> /\ output = <<>>

C14_Witness ==
    /\ spc = "exited" /\ exit_status = 1 /\ data.n = 2
    /\ Abs(data.A[0][0]) >= DiagEps /\ Abs(data.A[1][1]) < DiagEps

Warned(r) ==
    \E k \in 1..Len(stderr) :
        stderr[k] = [msg |-> "Warning: Row has sum >= 1", row |-> r]

OutputNotCreated ==
    \E k \in 1..Len(stderr) :
        stderr[k] = Message("Error: Cannot create output file")

\* C15: a row sum of 1.0 or more is not fatal: the warning is given for
\* each such row and for no other, the preparation succeeds, and the run
\* computes every requested component and writes them to the output
\* (unless the output file cannot be created).
C15_RowSumWarningIsNotFatal ==
    (spc # "prepare" /\ AllDiagonalsUsable(data))
        => /\ \A r \in Rows(data.n) : Warned(r) <=> AtLeastOne(data.row_sum[r])
           /\ spc \in {"write", "exited"} => Len(x_partial) = num_components
           /\ spc = "exited"
                => \/ exit_status = 0 /\ Len(output) = 2 + num_components
                   \/ exit_status = 1 /\ OutputNotCreated /\ output = <<>>

C15_Witness ==
    /\ spc = "exited" /\ exit_status = 0 /\ data.n = 2
    /\ Warned(0) /\ ~Warned(1)
    /\ Len(output) = 4

RECURSIVE SampleSum(_, _)
SampleSum(lo, hi) ==
    IF lo > hi THEN QZero ELSE QAdd(calls[lo].sample, SampleSum(lo + 1, hi))

\* C16: compute_solution produces end_idx - start_idx + 1 values in
\* ascending component order; the value at position k is the sum of exactly
\* num_walks samples, each of a walk started at state start_idx + k,
\* divided by num_walks, and no walk starts at another component's index.
C16_OneAveragePerComponent ==
    /\ \A j \in 1..Len(calls) :
          calls[j].start_state = data.start_idx + ((j - 1) \div data.num_walks)
    /\ \A k \in 1..Len(x_partial) :
          /\ Len(calls) >= k * data.num_walks
          /\ QMul(x_partial[k], QInt(data.num_walks))
                = SampleSum((k - 1) * data.num_walks + 1, k * data.num_walks)
    /\ spc \in {"write", "exited"} /\ calls # <<>>
          => /\ Len(x_partial) = num_components
             /\ Len(calls) = num_components * data.num_walks

C16_Witness ==
    /\ spc = "write" /\ num_components = 2 /\ data.num_walks = 2
    /\ x_partial[1] # x_partial[2]
    /\ calls[1].sample # calls[2].sample

(***************************************************************************)
(* The solver's output file read back by the validator's parse_result      *)
(***************************************************************************)
\* Partial solutions as write_output receives them: a range and one value
\* per component.
WrittenRanges == {<<0, 0>>, <<0, 1>>, <<1, 2>>, <<-1, 0>>, <<2, 4>>}

WrittenValues ==
    {<<0, 1>>, <<1, 2>>, <<-3, 4>>, <<1, 3>>, <<2, 3>>, <<1000, 1>>, <<-1, 80>>}

\* The fields of MonteCarloData that write_output reads.
RangeData(s, e) == [start_idx |-> s, end_idx |-> e]

RoundTripInit ==
    /\ MergeIdle
    /\ input = <<>> /\ parsed = <<>>
    /\ SeedIdle
    /\ PiIdle
    /\ AuxIdle
    /\ \E r \in WrittenRanges :
          /\ data = RangeData(r[1], r[2])
          /\ x_partial \in [1..(r[2] - r[1] + 1) -> WrittenValues]
          /\ comp_idx = r[2] - r[1] + 1
    /\ walk = 0 /\ sum = QZero
    /\ calls = <<>> /\ stderr = <<>> /\ output = <<>>
    /\ exit_status = -1
    /\ spc = "write"

\* parse_result on the file the solver wrote.
ParseOutput ==
    /\ spc = "exited" /\ exit_status = 0 /\ parsed = <<>>
    /\ parsed' = parse_result(File(output))
    /\ UNCHANGED <<merge_vars, solver_vars, seed_vars, pi_vars, aux_vars, input>>

RoundTripNext ==
    \/ WriteOutput
    \/ ParseOutput

RoundTripSpec == RoundTripInit /\ [][RoundTripNext]_vars

LeadDigits == 6

RECURSIVE Pow10(_)
Pow10(k) == IF k <= 0 THEN 1 ELSE 10 * Pow10(k - 1)

RECURSIVE Leading(_, _)
Leading(digits, k) ==
    IF k = 0 THEN 0 ELSE 10 * Leading(digits, k - 1) + digits[k]

\* The decimal `dec` agrees with the rational q in sign and in its first
\* LeadDigits digits, and has no further digits when q is that number.
Denotes(dec, q) ==
    LET lead == Leading(dec.digits, LeadDigits)
        scale == LeadDigits - 1 - dec.exp
        lo == QNorm(lead, Pow10(scale))
        hi == QNorm(lead + 1, Pow10(scale))
    IN  /\ dec.neg = (q[1] < 0)
        /\ ~QLess(QAbs(q), lo)
        /\ ~QLess(hi, QAbs(q))
        /\ (QAbs(q) = lo)
              => \A k \in (LeadDigits + 1)..Len(dec.digits) : dec.digits[k] = 0

\* C17: for every range with start_idx <= end_idx, parse_result accepts the
\* file write_output produced and recovers the same start_idx and end_idx
\* and exactly end_idx - start_idx + 1 values, in the order written.
C17_OutputRoundTrip ==
    parsed # <<>>
        => /\ parsed.retval = 0 /\ ~parsed.threw
           /\ parsed.start_idx = data.start_idx
           /\ parsed.end_idx = data.end_idx
           /\ Len(parsed.values) = data.end_idx - data.start_idx + 1
           /\ Len(parsed.values) = Len(x_partial)
           /\ \A k \in 1..Len(x_partial) : Denotes(parsed.values[k], x_partial[k])

C17_Witness ==
    /\ parsed # <<>>
    /\ data.start_idx = 2 /\ data.end_idx = 4
    /\ x_partial = << <<1, 3>>, <<-3, 4>>, <<1000, 1>> >>
    /\ parsed.values[3].exp = 3

(***************************************************************************)
(* read_input                                                              *)
(***************************************************************************)
MAX_DIM == 1000
DEFAULT_WALKS == 100000

\* A token such as 1.5: "%lf" reads all of it, "%d" reads the integer
\* part and leaves the rest in the stream.
Real(n) == [num |-> TRUE, v |-> n, frac |-> TRUE]

IsPartInt(tok) == "frac" \in DOMAIN tok

\* The text of a task's system: n, the rows of A, then b.
SystemText(n, A, b) ==
    <<Num(n)>> \o [k \in 1..(n * n) |-> Num(A[(k - 1) \div n][(k - 1) % n])]
               \o [k \in 1..n |-> Num(b[k - 1])]

SystemTexts ==
    { SystemText(1, [r \in Rows(1) |-> [c \in Rows(1) |-> 16]],
                    [r \in Rows(1) |-> -32]),
      SystemText(2, [r \in Rows(2) |-> [c \in Rows(2) |->
                                           IF r = c THEN 16 ELSE -16]],
                    [r \in Rows(2) |-> 16 * (r + 1)]) }

ParamTokens == {Num(0), Num(1), Num(7), Junk, Real(1)}
MaxParamTokens == 3

ParamTexts == {<<>>} \cup BoundedSeq(ParamTokens, MaxParamTokens)

UnreadableInput == [readable |-> FALSE, text |-> <<>>]
InputText(text) == [readable |-> TRUE, text |-> text]

BadInputs ==
    { UnreadableInput,
      InputText(<<>>),
      InputText(<<Junk, Num(16), Num(16)>>),
      InputText(<<Num(0)>>),
      InputText(<<Num(-1), Num(16)>>),
      InputText(<<Num(MAX_DIM + 1), Num(16)>>),
      InputText(<<Num(1)>>),
      InputText(<<Num(2), Num(16), Num(0), Junk, Num(16), Num(16), Num(16)>>),
      InputText(<<Num(1), Num(16)>>),
      InputText(<<Num(1), Num(16), Junk, Num(0), Num(0), Num(5)>>) }

InputFiles ==
    BadInputs \cup {InputText(sys \o par) : sys \in SystemTexts, par \in ParamTexts}

\* The items "%d %d %ld" assigns: it stops at the end of the text, at a
\* token that is no number, and after a token of which it read only a part.
RECURSIVE ScanInts(_, _)
ScanInts(toks, count) ==
    IF count = 0 \/ toks = <<>> THEN <<>>
    ELSE IF ~Head(toks).num THEN <<>>
    ELSE IF IsPartInt(Head(toks)) THEN <<Head(toks).v>>
    ELSE <<Head(toks).v>> \o ScanInts(Tail(toks), count - 1)

\* Variant: the values read before the failing item are kept.
WorkUnitParams_KeepsRead(n, toks) ==
    LET read == ScanInts(toks, 3)
        dflt == <<0, n - 1, DEFAULT_WALKS>>
    IN  [k \in 1..3 |-> IF k <= Len(read) THEN read[k] ELSE dflt[k]]

WorkUnitParams(n, toks) ==
    LET read == ScanInts(toks, 3)
    IN  IF Len(read) # 3 THEN <<0, n - 1, DEFAULT_WALKS>> ELSE read

ReadError(text) == [retval |-> -1, data |-> <<>>, msg |-> Message(text)]

read_input(file) ==
    IF ~file.readable THEN ReadError("Error: Cannot open input file")
    ELSE IF file.text = <<>> \/ ~file.text[1].num
    THEN ReadError("Error: Cannot read matrix dimension")
    ELSE LET n == file.text[1].v
             body == Tail(file.text)
         IN  IF n <= 0 \/ n > MAX_DIM THEN ReadError("Error: Invalid dimension")
             ELSE IF \E k \in 1..(n * n) : k > Len(body) \/ ~body[k].num
             THEN ReadError("Error: Cannot read matrix element")
             ELSE IF \E k \in (n * n + 1)..(n * n + n) :
                         k > Len(body) \/ ~body[k].num
             THEN ReadError("Error: Cannot read vector element")
             ELSE LET par == WorkUnitParams(n, SubSeq(body, n * n + n + 1, Len(body)))
                  IN  [retval |-> 0,
                       data |-> TaskData(n,
                                   [r \in Rows(n) |-> [c \in Rows(n) |->
                                        ScanLf(body[r * n + c + 1])]],
                                   [r \in Rows(n) |-> ScanLf(body[n * n + r + 1])],
                                   par[1], par[2], par[3]),
                       msg |-> Message("")]

ReadInit ==
    /\ MergeIdle
    /\ input \in InputFiles
    /\ parsed = <<>>
    /\ SeedIdle
    /\ PiIdle
    /\ AuxIdle
    /\ data = <<>> /\ x_partial = <<>>
    /\ comp_idx = 0 /\ walk = 0 /\ sum = QZero
    /\ calls = <<>> /\ stderr = <<>> /\ output = <<>>
    /\ exit_status = -1
    /\ spc = "read"

\* main when read_input returns -1; the partly filled data is not used.
ReadInputFails ==
    /\ spc = "read"
    /\ read_input(input).retval < 0
    /\ stderr' = stderr \o <<read_input(input).msg,
                             Message("Failed to read input")>>
    /\ exit_status' = 1
    /\ spc' = "exited"
    /\ UNCHANGED <<merge_vars, io_vars, seed_vars, pi_vars, aux_vars, data, x_partial, comp_idx, walk, sum,
                   calls, output>>

ReadInputSucceeds ==
    /\ spc = "read"
    /\ read_input(input).retval >= 0
    /\ data' = read_input(input).data
    /\ spc' = "prepare"
    /\ UNCHANGED <<merge_vars, io_vars, seed_vars, pi_vars, aux_vars, x_partial, comp_idx, walk, sum, calls,
                   stderr, output, exit_status>>

ReadNext ==
    \/ ReadInputFails
    \/ ReadInputSucceeds

ReadSpec == ReadInit /\ [][ReadNext]_vars

\* The system part of the input is complete: read_input reaches the
\* work unit parameters.
SystemReadable(file) ==
    /\ file.readable /\ file.text # <<>> /\ file.text[1].num
    /\ file.text[1].v >= 1 /\ file.text[1].v <= MAX_DIM
    /\ LET n == file.text[1].v
       IN  /\ Len(file.text) >= 1 + n * n + n
           /\ \A k \in 2..(1 + n * n + n) : file.text[k].num

ParamTail(file) ==
    LET n == file.text[1].v
    IN  SubSeq(file.text, 2 + n * n + n, Len(file.text))

\* All three parameters are present as integers.
ParamsGiven(tail) ==
    /\ Len(tail) >= 3
    /\ \A k \in 1..3 : tail[k].num
    /\ \A k \in 1..2 : ~IsPartInt(tail[k])

\* C18: when the three work unit parameters are absent or cannot all be
\* read, read_input succeeds with start_idx = 0, end_idx = n - 1 and
\* num_walks = 100000, whatever part of them was read.
C18_DefaultParameters ==
    [][(spc = "read" /\ SystemReadable(input) /\ ~ParamsGiven(ParamTail(input)))
        => /\ spc' = "prepare"
           /\ data'.n = input.text[1].v
           /\ data'.start_idx = 0
           /\ data'.end_idx = data'.n - 1
           /\ data'.num_walks = 100000]_vars

C18_Witness ==
    /\ spc = "prepare"
    /\ data.n = 2
    /\ ParamTail(input) = <<Num(7), Num(1)>>
    /\ data.start_idx = 0 /\ data.end_idx = 1 /\ data.num_walks = DEFAULT_WALKS

(***************************************************************************)
(* init_random of concurrently running solver instances.  An instance is   *)
(* a process (host, pid) of one of the builds: Axb-MonteCarlo.c with or    *)
(* without _BOINC_, or simpleAxbMC.c.  The clock is time(NULL) in seconds. *)
(***************************************************************************)
MaxClock == 6
MaxInstances == 2

StartTimes == {4}
Hosts == {"h1", "h2"}
Pids == {1, 2, 3}
UrandomValues == {5, 9}

RECURSIVE BitXor(_, _)
BitXor(a, b) ==
    IF a = 0 /\ b = 0 THEN 0
    ELSE (((a % 2) + (b % 2)) % 2) + 2 * BitXor(a \div 2, b \div 2)

\* init_random of Axb-MonteCarlo.c.
init_random(boinc, t, pid) == IF boinc THEN BitXor(t, pid) ELSE t

SeedInit ==
    /\ MergeIdle /\ SolverIdle /\ IoIdle /\ PiIdle /\ AuxIdle
    /\ clock \in StartTimes
    /\ instances = <<>>

seed_frame == <<merge_vars, solver_vars, io_vars, pi_vars, aux_vars>>

Tick ==
    /\ clock < MaxClock
    /\ clock' = clock + 1
    /\ UNCHANGED <<seed_frame, instances>>

\* A new process: no running process of the host has its pid.
CanStart(host, pid) ==
    /\ Len(instances) < MaxInstances
    /\ \A k \in 1..Len(instances) :
          ~(instances[k].host = host /\ instances[k].pid = pid)

Started(host, pid, build, seed) ==
    /\ instances' = Append(instances, [host |-> host, pid |-> pid,
                                       build |-> build, seed |-> seed])
    /\ UNCHANGED <<seed_frame, clock>>

StartBoinc ==
    \E host \in Hosts, pid \in Pids :
        /\ CanStart(host, pid)
        /\ Started(host, pid, "boinc", init_random(TRUE, clock, pid))

StartStandalone ==
    \E host \in Hosts, pid \in Pids :
        /\ CanStart(host, pid)
        /\ Started(host, pid, "standalone", init_random(FALSE, clock, pid))

\* init_random of simpleAxbMC.c: four bytes of /dev/urandom.
StartSimple ==
    \E host \in Hosts, pid \in Pids, seed \in UrandomValues :
        /\ CanStart(host, pid)
        /\ Started(host, pid, "simple", seed)

\* init_random of simpleAxbMC.c when /dev/urandom cannot be opened.
StartSimpleNoUrandom ==
    \E host \in Hosts, pid \in Pids :
        /\ CanStart(host, pid)
        /\ Started(host, pid, "simple", clock)

SeedNext ==
    \/ Tick
    \/ StartBoinc
    \/ StartStandalone
    \/ StartSimple
    \/ StartSimpleNoUrandom

SeedSpec == SeedInit /\ [][SeedNext]_vars

\* C19: two solver instances that run concurrently never have the same
\* seed from init_random.
C19_DistinctSeeds ==
    \A a, b \in 1..Len(instances) :
        a # b => instances[a].seed # instances[b].seed

(***************************************************************************)
(* pi_compute: the computation loop, its checkpoints, and restarts of an   *)
(* interrupted task.  `counted` records, for the tally held in memory, how *)
(* often each iteration index went into it; `saved_counted` is the same    *)
(* for the tally in the checkpoint file; `runs` lists how each run of the  *)
(* task started.                                                           *)
(***************************************************************************)
MaxIterations == 3
MaxRestarts == 2

PiSeeds == {11, 12}

CheckpointData(ic, pic, seed) ==
    [iterations_completed |-> ic, points_in_circle |-> pic, random_seed |-> seed]

NoCheckpoint == [exists |-> FALSE, items |-> <<>>]

\* fprintf "%lld %lld %u\n"
CheckpointText(cp) ==
    [exists |-> TRUE,
     items |-> <<cp.iterations_completed, cp.points_in_circle, cp.random_seed>>]

\* The file of a write that was cut short: truncated by fopen "w", or
\* holding a prefix of the text.
TornTexts(cp) ==
    {[exists |-> TRUE, items |-> t] :
        t \in {<<>>,
               <<cp.iterations_completed \div 10>>,
               <<cp.iterations_completed>>,
               <<cp.iterations_completed, cp.points_in_circle>>,
               <<cp.iterations_completed, cp.points_in_circle,
                 cp.random_seed \div 10>>}}

read_checkpoint(file) ==
    IF ~file.exists \/ Len(file.items) # 3
    THEN [retval |-> -1, data |-> CheckpointData(0, 0, 0)]
    ELSE [retval |-> 0,
          data |-> CheckpointData(file.items[1], file.items[2], file.items[3])]

Indices == 0..(total_iterations - 1)
NoneCounted == [k \in Indices |-> 0]

pi_frame == <<merge_vars, solver_vars, io_vars, seed_vars, aux_vars>>

PiInit ==
    /\ MergeIdle /\ SolverIdle /\ IoIdle /\ SeedIdle /\ AuxIdle
    /\ total_iterations \in 1..MaxIterations
    /\ checkpoint_data = CheckpointData(0, 0, 0)
    /\ loop_i = 0
    /\ checkpoint_file = NoCheckpoint
    /\ counted = NoneCounted /\ saved_counted = NoneCounted
    /\ runs = <<>>
    /\ ppc = "start"

\* No usable checkpoint: the counters start at zero with a new seed.
StartFresh ==
    /\ ppc = "start"
    /\ read_checkpoint(checkpoint_file).retval # 0
    /\ \E seed \in PiSeeds : checkpoint_data' = CheckpointData(0, 0, seed)
    /\ loop_i' = 0
    /\ counted' = NoneCounted
    /\ runs' = Append(runs, "fresh")
    /\ ppc' = "loop"
    /\ UNCHANGED <<pi_frame, total_iterations, checkpoint_file, saved_counted>>

Resume ==
    /\ ppc = "start"
    /\ read_checkpoint(checkpoint_file).retval = 0
    /\ checkpoint_data' = read_checkpoint(checkpoint_file).data
    /\ loop_i' = read_checkpoint(checkpoint_file).data.iterations_completed
    /\ counted' = saved_counted
    /\ runs' = Append(runs, "resumed")
    /\ ppc' = "loop"
    /\ UNCHANGED <<pi_frame, total_iterations, checkpoint_file, saved_counted>>

\* Variant: iterations_completed is left at the index of the iteration.
CompletedAfter_NotAdvanced(idx) == idx

CompletedAfter(idx) == idx + 1

\* checkpoint_data after the sample of iteration loop_i.
Sampled(hit) ==
    CheckpointData(CompletedAfter(loop_i),
                   checkpoint_data.points_in_circle + (IF hit THEN 1 ELSE 0),
                   checkpoint_data.random_seed)

InLoopBody == ppc = "loop" /\ loop_i < total_iterations

CountIteration == counted' = [counted EXCEPT ![loop_i] = counted[loop_i] + 1]

\* An iteration in which boinc_time_to_checkpoint() is false.
Iterate ==
    /\ InLoopBody
    /\ \E hit \in BOOLEAN : checkpoint_data' = Sampled(hit)
    /\ CountIteration
    /\ loop_i' = loop_i + 1
    /\ UNCHANGED <<pi_frame, total_iterations, checkpoint_file, saved_counted,
                   runs, ppc>>

IterateAndCheckpoint ==
    /\ InLoopBody
    /\ \E hit \in BOOLEAN, seed \in PiSeeds :
          checkpoint_data' = [Sampled(hit) EXCEPT !.random_seed = seed]
    /\ CountIteration
    /\ checkpoint_file' = CheckpointText(checkpoint_data')
    /\ saved_counted' = counted'
    /\ loop_i' = loop_i + 1
    /\ UNCHANGED <<pi_frame, total_iterations, runs, ppc>>

\* write_checkpoint cannot open the file: compute_pi returns the error.
CheckpointWriteFails ==
    /\ InLoopBody
    /\ \E hit \in BOOLEAN, seed \in PiSeeds :
          checkpoint_data' = [Sampled(hit) EXCEPT !.random_seed = seed]
    /\ CountIteration
    /\ ppc' = "failed"
    /\ UNCHANGED <<pi_frame, total_iterations, loop_i, checkpoint_file,
                   saved_counted, runs>>

CanRestart == Len(runs) <= MaxRestarts

\* The process is stopped; the task is started again later.
Interrupt ==
    /\ ppc = "loop"
    /\ CanRestart
    /\ checkpoint_data' = CheckpointData(0, 0, 0)
    /\ loop_i' = 0
    /\ counted' = NoneCounted
    /\ ppc' = "start"
    /\ UNCHANGED <<pi_frame, total_iterations, checkpoint_file, saved_counted,
                   runs>>

\* The process is stopped inside write_checkpoint.
InterruptInCheckpoint ==
    /\ InLoopBody
    /\ CanRestart
    /\ \E hit \in BOOLEAN, seed \in PiSeeds :
          /\ checkpoint_file' \in
                TornTexts([Sampled(hit) EXCEPT !.random_seed = seed])
          /\ saved_counted' = [counted EXCEPT ![loop_i] = counted[loop_i] + 1]
    /\ checkpoint_data' = CheckpointData(0, 0, 0)
    /\ loop_i' = 0
    /\ counted' = NoneCounted
    /\ ppc' = "start"
    /\ UNCHANGED <<pi_frame, total_iterations, runs>>

\* The loop has ended: the estimate is written to the output file.
Finish ==
    /\ ppc = "loop"
    /\ loop_i >= total_iterations
    /\ ppc' = "done"
    /\ UNCHANGED <<pi_frame, total_iterations, checkpoint_data, loop_i,
                   checkpoint_file, counted, saved_counted, runs>>

\* write_output_file fails: compute_pi returns the error.
FinishFails ==
    /\ ppc = "loop"
    /\ loop_i >= total_iterations
    /\ ppc' = "failed"
    /\ UNCHANGED <<pi_frame, total_iterations, checkpoint_data, loop_i,
                   checkpoint_file, counted, saved_counted, runs>>

PiNext ==
    \/ StartFresh
    \/ Resume
    \/ Iterate
    \/ IterateAndCheckpoint
    \/ CheckpointWriteFails
    \/ Interrupt
    \/ InterruptInCheckpoint
    \/ Finish
    \/ FinishFails

PiSpec == PiInit /\ [][PiNext]_vars

AvgMin == 10
ToleranceAbs == 1000000000

ComparedValues ==
    {0, 5, 10, 11, 15, 20, 199, 200, 201, 1990, 2010, 2011, -10, -201}

\* avg > 1e-10
UseRelative(a, b) == QLess(QInt(AvgMin), <<Abs(a) + Abs(b), 2>>)

\* error: diff / avg as a number, or diff in units of 1e-11.
ErrorOf(a, b) ==
    IF UseRelative(a, b)
    THEN QDiv(QInt(Abs(a - b)), <<Abs(a) + Abs(b), 2>>)
    ELSE QInt(Abs(a - b))

\* Variant: an error equal to the tolerance is refused as well.
Exceeds_Inclusive(err, relative) ==
    IF relative THEN ~QLess(err, <<1, 100>>)
    ELSE ~QLess(err, QInt(ToleranceAbs))

\* error > 0.01
Exceeds(err, relative) ==
    IF relative THEN QLess(<<1, 100>>, err)
    ELSE QLess(QInt(ToleranceAbs), err)

Compared(a, b) ==
    [a |-> a, b |-> b, done |-> TRUE, relative |-> UseRelative(a, b),
     error |-> ErrorOf(a, b),
     reject |-> Exceeds(ErrorOf(a, b), UseRelative(a, b))]

compare_frame ==
    <<merge_vars, solver_vars, io_vars, seed_vars, pi_vars, rw, avg_run,
      builds>>

CompareInit ==
    /\ MergeIdle /\ SolverIdle /\ IoIdle /\ SeedIdle /\ PiIdle
    /\ rw = <<>> /\ avg_run = <<>> /\ builds = <<>>
    /\ \E a \in ComparedValues, b \in ComparedValues :
          cmp = [a |-> a, b |-> b, done |-> FALSE]

CompareRelative ==
    /\ ~cmp.done
    /\ UseRelative(cmp.a, cmp.b)
    /\ cmp' = Compared(cmp.a, cmp.b)
    /\ UNCHANGED compare_frame

CompareAbsolute ==
    /\ ~cmp.done
    /\ ~UseRelative(cmp.a, cmp.b)
    /\ cmp' = Compared(cmp.a, cmp.b)
    /\ UNCHANGED compare_frame

CompareNext ==
    \/ CompareRelative
    \/ CompareAbsolute

CompareSpec == CompareInit /\ [][CompareNext]_vars

\* C21: the incoming value a and the claimed value b are compared by
\* error = |a-b| / ((|a|+|b|)/2) when (|a|+|b|)/2 > 1e-10 and by
\* error = |a-b| otherwise; the incoming solution is rejected exactly when
\* error > 0.01, so an error of exactly 1% is accepted; the test is
\* symmetric in a and b, and on values of ordinary size it is the test the
\* merge pass applies.
C21_ToleranceTest ==
    cmp.done
        => LET twice_avg == Abs(cmp.a) + Abs(cmp.b)
               diff == Abs(cmp.a - cmp.b)
           IN  /\ cmp.relative <=> twice_avg > 2 * AvgMin
               /\ cmp.relative
                    => /\ QMul(cmp.error, <<twice_avg, 2>>) = QInt(diff)
                       /\ cmp.reject <=> 200 * diff > twice_avg
               /\ ~cmp.relative
                    => /\ cmp.error = QInt(diff)
                       /\ cmp.reject <=> diff > ToleranceAbs
               /\ cmp.reject = Compared(cmp.b, cmp.a).reject
               /\ cmp.relative => cmp.reject = Inconsistent(cmp.a, cmp.b)

C21_Witness ==
    /\ cmp.done /\ cmp.a = 199 /\ cmp.b = 201
    /\ cmp.error = <<1, 100>> /\ ~cmp.reject

(***************************************************************************)
(* random_walk, one loop iteration at a time.  `rw` holds the arguments,   *)
(* the locals current_state, weight and sum, and the iterations so far.    *)
(***************************************************************************)
\* A 3 x 3 system whose first row has two transitions of different
\* weight, whose second row has none, and whose third has a negative one.
Matrix3 ==
    [r \in Rows(3) |-> [c \in Rows(3) |->
        IF r = 0 THEN <<32, -16, -8>>[c + 1]
        ELSE IF r = 1 THEN <<0, 16, 0>>[c + 1]
        ELSE <<-8, 0, -32>>[c + 1]]]

WalkTasks ==
    {t \in ValidTasks : /\ t.start_idx = 0 /\ t.end_idx = t.n - 1
                        /\ t.num_walks = 1
                        /\ prepare_iteration_form(t).retval = 0}
    \cup {TaskData(3, Matrix3, [r \in Rows(3) |-> 16 * (r + 1)], 0, 2, 1)}

IterationForms == {prepare_iteration_form(t).data : t \in WalkTasks}

\* Values of rand_double, 0 included.
WalkDraws == DrawValues \cup {QZero, <<9, 10>>}

walk_frame ==
    <<merge_vars, solver_vars, io_vars, seed_vars, pi_vars, cmp, avg_run,
      builds>>

WalkInit ==
    /\ MergeIdle /\ SolverIdle /\ IoIdle /\ SeedIdle /\ PiIdle
    /\ cmp = <<>> /\ avg_run = <<>> /\ builds = <<>>
    /\ \E d \in IterationForms, start_state \in 0..2 :
          /\ start_state < d.n
          /\ rw = [d |-> d, start_state |-> start_state,
                   current_state |-> start_state, weight |-> QOne,
                   sum |-> QZero, step |-> 0, trace |-> <<>>,
                   draws |-> <<>>, returned |-> FALSE]

\* Variant: the loop runs while step <= MAX_STEPS.
InWalkLoop_OneMore == ~rw.returned /\ rw.step <= MAX_STEPS

InWalkLoop == ~rw.returned /\ rw.step < MAX_STEPS

\* sum += weight * data->f[current_state]
Contribution == QMul(rw.weight, rw.d.f[rw.current_state])

Iteration(kind, t, next_state) ==
    [state |-> rw.current_state, weight |-> rw.weight, t |-> t, kind |-> kind,
     next_state |-> next_state]

\* The termination draw is below TERMINATION_PROB.
WalkTerminates ==
    /\ InWalkLoop
    /\ \E t \in WalkDraws :
          /\ QLess(t, TERMINATION_PROB)
          /\ rw' = [rw EXCEPT !.sum = QAdd(rw.sum, Contribution),
                              !.trace = Append(rw.trace,
                                   Iteration("terminated", t, rw.current_state)),
                              !.draws = Append(rw.draws, t),
                              !.returned = TRUE]
    /\ UNCHANGED walk_frame

\* The current state has no transitions.
WalkAbsorbed ==
    /\ InWalkLoop
    /\ NoTransitions(rw.d.row_sum[rw.current_state])
    /\ \E t \in WalkDraws :
          /\ ~QLess(t, TERMINATION_PROB)
          /\ rw' = [rw EXCEPT !.sum = QAdd(rw.sum, Contribution),
                              !.trace = Append(rw.trace,
                                   Iteration("absorbed", t, rw.current_state)),
                              !.draws = Append(rw.draws, t),
                              !.returned = TRUE]
    /\ UNCHANGED walk_frame

\* weight after the transition from state cur to state j.
NextWeight(d, cur, j, weight) ==
    QMul(QMul(weight, IF d.C[cur][j][1] >= 0 THEN QOne ELSE QInt(-1)),
         QDiv(d.row_sum[cur], QAdd(QOne, QMul(QInt(-1), TERMINATION_PROB))))

\* A draw is below 1 and cumsum ends at row_sum, so r <= cumsum is met at
\* some j.
WalkMoves ==
    /\ InWalkLoop
    /\ ~NoTransitions(rw.d.row_sum[rw.current_state])
    /\ \E t \in WalkDraws, u \in WalkDraws :
          LET cur == rw.current_state
              r == QMul(u, rw.d.row_sum[cur])
              hits == Hits(rw.d, cur, r)
              j == MinOf(hits)
          IN  /\ ~QLess(t, TERMINATION_PROB)
              /\ hits # {}
              /\ rw' = [rw EXCEPT
                           !.sum = QAdd(rw.sum, Contribution),
                           !.current_state = j,
                           !.weight = NextWeight(rw.d, cur, j, rw.weight),
                           !.step = rw.step + 1,
                           !.trace = Append(rw.trace, Iteration("moved", t, j)),
                           !.draws = rw.draws \o <<t, u>>]
    /\ UNCHANGED walk_frame

\* step has reached MAX_STEPS: the loop ends.
WalkRunsOut ==
    /\ ~rw.returned
    /\ ~InWalkLoop
    /\ rw' = [rw EXCEPT !.returned = TRUE]
    /\ UNCHANGED walk_frame

WalkNext ==
    \/ WalkTerminates
    \/ WalkAbsorbed
    \/ WalkMoves
    \/ WalkRunsOut

WalkSpec == WalkInit /\ [][WalkNext]_vars

RECURSIVE TraceSum(_)
TraceSum(k) ==
    IF k = 0 THEN QZero
    ELSE QAdd(TraceSum(k - 1),
              QMul(rw.trace[k].weight, rw.d.f[rw.trace[k].state]))

\* C22: every walk returns after at most MAX_STEPS iterations; each
\* iteration first adds weight * f[current_state] to the sum, the first
\* with weight 1 at the start state; and the walk returns the sum at the
\* first iteration whose termination draw is below 0.1.
C22_WalkTerminates ==
    /\ Len(rw.trace) <= MAX_STEPS
    /\ rw.sum = TraceSum(Len(rw.trace))
    /\ \A k \in 1..Len(rw.trace) :
          /\ k = 1 => /\ rw.trace[k].state = rw.start_state
                      /\ rw.trace[k].weight = QOne
          /\ QLess(rw.trace[k].t, <<1, 10>>)
                => k = Len(rw.trace) /\ rw.returned
    /\ rw.returned
          => /\ rw.trace # <<>>
             /\ random_walk(rw.d, rw.start_state, rw.draws)
                    = [ended |-> TRUE, sum |-> rw.sum, rest |-> <<>>,
                       steps |-> Len(rw.trace)]

C22_Witness ==
    /\ rw.returned /\ rw.d.n = 3 /\ rw.start_state = 2
    /\ Len(rw.trace) = 3
    /\ rw.trace[3].kind = "terminated"
    /\ rw.trace[3].state = 1

\* C23: the state chosen in a transition has a non-zero transition
\* weight |C[current_state][j]|; in particular it is never the current
\* state.
C23_ChosenStateHasWeight ==
    \A k \in 1..Len(rw.trace) :
        rw.trace[k].kind = "moved"
            => /\ rw.d.C[rw.trace[k].state][rw.trace[k].next_state] # QZero
               /\ rw.trace[k].next_state # rw.trace[k].state

Sign(q) == IF q[1] > 0 THEN 1 ELSE IF q[1] < 0 THEN -1 ELSE 0

WeightAfter(k) ==
    IF k < Len(rw.trace) THEN rw.trace[k + 1].weight ELSE rw.weight

\* C24: a transition from state i to the chosen state j multiplies the
\* weight by sign(C[i][j]) * row_sum[i] / (1 - 0.1), and the weight
\* changes at no other point of the walk.
C24_WeightUpdate ==
    \A k \in 1..Len(rw.trace) :
        LET st == rw.trace[k].state
            nx == rw.trace[k].next_state
        IN  IF rw.trace[k].kind = "moved"
            THEN QMul(WeightAfter(k), <<9, 10>>)
                    = QMul(rw.trace[k].weight,
                           QMul(QInt(Sign(rw.d.C[st][nx])), rw.d.row_sum[st]))
            ELSE WeightAfter(k) = rw.trace[k].weight

(***************************************************************************)
(* The estimate of one component of a system without off-diagonal          *)
(* coefficients: every walk returns 0.0 + 1.0 * f[i], which is f[i], and   *)
(* compute_solution adds num_walks of them and divides.  Here the          *)
(* arithmetic is binary floating point, rounding to nearest (ties to       *)
(* even), with MantissaBits significant bits in place of the 53 of a       *)
(* double.                                                                 *)
(***************************************************************************)
MantissaBits == 5
MaxSamples == 6

RECURSIVE Pow2(_)
Pow2(k) == IF k <= 0 THEN 1 ELSE 2 * Pow2(k - 1)

\* n / d scaled by a power of two into [2^(MantissaBits-1), 2^MantissaBits).
RECURSIVE Scaled(_, _, _)
Scaled(n, d, e) ==
    IF n >= Pow2(MantissaBits) * d THEN Scaled(n, 2 * d, e + 1)
    ELSE IF n < Pow2(MantissaBits - 1) * d THEN Scaled(2 * n, d, e - 1)
    ELSE [n |-> n, d |-> d, e |-> e]

\* The floating-point number nearest to the non-negative rational q.
RoundPos(q) ==
    IF q[1] = 0 THEN QZero
    ELSE LET sc == Scaled(q[1], q[2], 0)
             m == sc.n \div sc.d
             rem == sc.n % sc.d
             up == 2 * rem > sc.d \/ (2 * rem = sc.d /\ m % 2 = 1)
             mant == IF up THEN m + 1 ELSE m
         IN  IF sc.e >= 0 THEN QNorm(mant * Pow2(sc.e), 1)
             ELSE QNorm(mant, Pow2(0 - sc.e))

Fl(q) ==
    IF q[1] < 0 THEN QMul(QInt(-1), RoundPos(QAbs(q))) ELSE RoundPos(q)

SampleNumerators == {1, 3, 5, 7}
SampleDiagonals == {3, 5, 7, 10}

average_frame ==
    <<merge_vars, solver_vars, io_vars, seed_vars, pi_vars, cmp, rw, builds>>

AverageInit ==
    /\ MergeIdle /\ SolverIdle /\ IoIdle /\ SeedIdle /\ PiIdle
    /\ cmp = <<>> /\ rw = <<>> /\ builds = <<>>
    /\ \E b \in SampleNumerators, diag \in SampleDiagonals,
          num_walks \in 1..MaxSamples :
          avg_run = [b |-> b, diag |-> diag, num_walks |-> num_walks,
                 f |-> Fl(QDiv(QInt(b), QInt(diag))),
                 sum |-> QZero, walk |-> 0, x |-> QZero, done |-> FALSE]

\* sum += random_walk(data, i), the walk returning f[i].
AddSample ==
    /\ ~avg_run.done
    /\ avg_run.walk < avg_run.num_walks
    /\ avg_run' = [avg_run EXCEPT
                       !.sum = Fl(QAdd(avg_run.sum, avg_run.f)),
                       !.walk = avg_run.walk + 1]
    /\ UNCHANGED average_frame

\* x_partial[idx] = sum / data->num_walks
TakeAverage ==
    /\ ~avg_run.done
    /\ avg_run.walk >= avg_run.num_walks
    /\ avg_run' = [avg_run EXCEPT
                       !.x = Fl(QDiv(avg_run.sum, QInt(avg_run.num_walks))),
                       !.done = TRUE]
    /\ UNCHANGED average_frame

AverageNext ==
    \/ AddSample
    \/ TakeAverage

AverageSpec == AverageInit /\ [][AverageNext]_vars

\* C25: for a system without off-diagonal coefficients every state is
\* absorbing, every walk returns f[i], and the solver's estimate of
\* component i is exactly b[i] / A[i][i].
C25_ExactEstimate == avg_run.done => avg_run.x = avg_run.f

(***************************************************************************)
(* compute_solution in its two builds, with _BOINC_ (progress reported)    *)
(* and without, run on the same task with the same stream of draws.        *)
(***************************************************************************)
MaxReportedWalks == 3
ReportEvery == 2
StreamLen == 2 * MaxReportedWalks

ProgressTasks ==
    {prepare_iteration_form(
         TaskData(2, [r \in Rows(2) |-> [c \in Rows(2) |->
                         IF r = c THEN 32 ELSE -16]],
                  [r \in Rows(2) |-> 16 * (r + 1)], s, e, w)).data :
        s \in Rows(2), e \in Rows(2), w \in 1..MaxReportedWalks}

Streams == [1..StreamLen -> DrawValues]

Components(d) == d.end_idx - d.start_idx + 1

\* progress = (idx + (double)walk / data->num_walks) / num_components
Fraction(d, idx, w) ==
    QDiv(QAdd(QInt(idx), QNorm(w, d.num_walks)), QInt(Components(d)))

\* Variant: reporting takes a draw from the generator.
ReportProgress_Draws(d, s, w) ==
    [s EXCEPT !.reports = Append(s.reports, Fraction(d, s.comp_idx, w)),
              !.stream = IF s.stream = <<>> THEN <<>> ELSE Tail(s.stream)]

\* boinc_fraction_done(progress)
ReportProgress(d, s, w) ==
    [s EXCEPT !.reports = Append(s.reports, Fraction(d, s.comp_idx, w))]

\* One iteration of the inner loop.
CanIterate(d, s) ==
    /\ s.comp_idx < Components(d)
    /\ s.walk < d.num_walks
    /\ random_walk(d, d.start_idx + s.comp_idx, s.stream).ended

Iterated(d, s, boinc) ==
    LET w == random_walk(d, d.start_idx + s.comp_idx, s.stream)
        added == [s EXCEPT !.sum = QAdd(s.sum, w.sum), !.stream = w.rest]
        reported == IF boinc /\ s.walk % ReportEvery = 0
                    THEN ReportProgress(d, added, s.walk)
                    ELSE added
    IN  [reported EXCEPT !.walk = s.walk + 1]

\* x_partial[idx] = sum / data->num_walks, and the next component.
CanAverage(d, s) ==
    /\ s.comp_idx < Components(d)
    /\ s.walk >= d.num_walks

Averaged(d, s) ==
    [s EXCEPT !.x_partial = Append(s.x_partial,
                                   QDiv(s.sum, QInt(d.num_walks))),
              !.comp_idx = s.comp_idx + 1,
              !.walk = 0,
              !.sum = QZero]

progress_frame ==
    <<merge_vars, solver_vars, io_vars, seed_vars, pi_vars, cmp, rw, avg_run>>

ProgressInit ==
    /\ MergeIdle /\ SolverIdle /\ IoIdle /\ SeedIdle /\ PiIdle
    /\ cmp = <<>> /\ rw = <<>> /\ avg_run = <<>>
    /\ \E d \in ProgressTasks, stream \in Streams :
          LET start == [comp_idx |-> 0, walk |-> 0, sum |-> QZero,
                        x_partial |-> <<>>, stream |-> stream,
                        reports |-> <<>>]
          IN  builds = [d |-> d, boinc |-> start, standalone |-> start]

BoincWalk ==
    /\ CanIterate(builds.d, builds.boinc)
    /\ builds' = [builds EXCEPT !.boinc = Iterated(builds.d, @, TRUE)]
    /\ UNCHANGED progress_frame

BoincAverage ==
    /\ CanAverage(builds.d, builds.boinc)
    /\ builds' = [builds EXCEPT !.boinc = Averaged(builds.d, @)]
    /\ UNCHANGED progress_frame

StandaloneWalk ==
    /\ CanIterate(builds.d, builds.standalone)
    /\ builds' = [builds EXCEPT !.standalone = Iterated(builds.d, @, FALSE)]
    /\ UNCHANGED progress_frame

StandaloneAverage ==
    /\ CanAverage(builds.d, builds.standalone)
    /\ builds' = [builds EXCEPT !.standalone = Averaged(builds.d, @)]
    /\ UNCHANGED progress_frame

ProgressNext ==
    \/ BoincWalk
    \/ BoincAverage
    \/ StandaloneWalk
    \/ StandaloneAverage

ProgressSpec == ProgressInit /\ [][ProgressNext]_vars

SolverState(s) == [s EXCEPT !.reports = <<>>]

SamePlace(s, t) == s.comp_idx = t.comp_idx /\ s.walk = t.walk

\* C26: progress reporting is purely observational.  At the same place of
\* the loops the two builds have the same sums, the same values computed so
\* far and the same draws left, so the finished partial solutions are
\* identical and no report consumed a draw or wrote solver state; every
\* reported fraction is in [0, 1) and none is below the one before it.
C26_ProgressIsObservational ==
    /\ SamePlace(builds.boinc, builds.standalone)
           => SolverState(builds.boinc) = builds.standalone
    /\ \A k \in 1..Len(builds.boinc.reports) :
          /\ builds.boinc.reports[k][1] >= 0
          /\ QLess(builds.boinc.reports[k], QOne)
          /\ k > 1 => ~QLess(builds.boinc.reports[k],
                             builds.boinc.reports[k - 1])
    /\ builds.standalone.reports = <<>>

C26_Witness ==
    /\ builds.boinc.comp_idx >= Components(builds.d)
    /\ builds.standalone.comp_idx >= Components(builds.d)
    /\ Components(builds.d) = 2
    /\ builds.d.num_walks = MaxReportedWalks
    /\ Len(builds.boinc.reports) >= 3
    /\ builds.boinc.x_partial = builds.standalone.x_partial
    /\ builds.boinc.x_partial[1] # builds.boinc.x_partial[2]

(***************************************************************************)
(* compare_partial_solutions, the comparator of compare_results, set       *)
(* against the overlap test of check_set                                   *)
(***************************************************************************)
\* error > tolerance for one pair of values, tolerance being 0.01.
ErrorAboveTolerance(a, b) ==
    LET diff == Abs(a - b)
        twice_avg == Abs(a) + Abs(b)
    IN  IF twice_avg > 0 THEN 200 * diff > twice_avg ELSE 100 * diff > 1

\* Variant: solutions of different ranges are compared on the indices
\* they share.
compare_partial_solutions_Shared(sol1, sol2) ==
    \A idx \in (sol1.start_idx..sol1.end_idx)
                  \cap (sol2.start_idx..sol2.end_idx) :
        ~ErrorAboveTolerance(sol1.values[idx - sol1.start_idx + 1],
                             sol2.values[idx - sol2.start_idx + 1])

compare_partial_solutions(sol1, sol2) ==
    IF sol1.start_idx # sol2.start_idx \/ sol1.end_idx # sol2.end_idx
    THEN FALSE
    ELSE IF Len(sol1.values) # Len(sol2.values) THEN FALSE
    ELSE \A k \in 1..Len(sol1.values) :
            ~ErrorAboveTolerance(sol1.values[k], sol2.values[k])

Parses(file) ==
    /\ file.infos = "ok"
    /\ ~parse_result(file).threw
    /\ parse_result(file).retval = 0

SameRange(p, q) == p.start_idx = q.start_idx /\ p.end_idx = q.end_idx

FirstTwoProcessed ==
    /\ Len(results) >= 2
    /\ i = 3
    /\ Parses(results[1])
    /\ Parses(results[2])

\* C27: when the first two results of a merge pass parse, then, if their
\* ranges are identical, the second is accepted by check_set exactly when
\* compare_partial_solutions holds of the two; if their ranges differ,
\* compare_partial_solutions is false of them.
C27_ComparatorAgreesWithMerge ==
    FirstTwoProcessed =>
        LET sol1 == PartialSolution(parse_result(results[1]))
            sol2 == PartialSolution(parse_result(results[2]))
        IN  /\ SameRange(sol1, sol2) =>
                  (compare_partial_solutions(sol1, sol2)
                      <=> (Len(solutions) = 2 /\ solutions[2] = sol2))
            /\ ~SameRange(sol1, sol2) =>
                  ~compare_partial_solutions(sol1, sol2)

\* Two solutions of one range whose values differ by less than 1%: the
\* comparator holds and the merge accepts the second.
C27_Witness ==
    /\ FirstTwoProcessed
    /\ LET sol1 == PartialSolution(parse_result(results[1]))
           sol2 == PartialSolution(parse_result(results[2]))
       IN  /\ SameRange(sol1, sol2)
           /\ sol1.end_idx > sol1.start_idx
           /\ sol1.values # sol2.values
           /\ compare_partial_solutions(sol1, sol2)
           /\ Len(solutions) = 2

\* Two solutions of one range that differ by more than 1%.
C27_WitnessRejected ==
    /\ FirstTwoProcessed
    /\ LET sol1 == PartialSolution(parse_result(results[1]))
           sol2 == PartialSolution(parse_result(results[2]))
       IN  /\ SameRange(sol1, sol2)
           /\ ~compare_partial_solutions(sol1, sol2)
           /\ Len(solutions) = 1

\* Two solutions of different ranges that agree on the index they share:
\* the merge accepts both.
C27_WitnessDifferentRanges ==
    /\ FirstTwoProcessed
    /\ LET sol1 == PartialSolution(parse_result(results[1]))
           sol2 == PartialSolution(parse_result(results[2]))
       IN  /\ sol1.start_idx = 0 /\ sol1.end_idx = 0
           /\ sol2.start_idx = 0 /\ sol2.end_idx = 1
           /\ sol1.values[1] = sol2.values[1]
           /\ Len(solutions) = 2

(***************************************************************************)
(* What check_set hands back to its caller                                 *)
(***************************************************************************)
Returned == pc = "done"

\* C28: a pass that returns failure has left canonicalid and credit as
\* they were on entry and has set retry; a pass that returns success has
\* set canonicalid and credit and has left retry false; so retry is true
\* exactly when the pass returned failure.
C28_RetryIffFailure ==
    /\ ~Returned => (~retry /\ canonicalid = 0 /\ credit = -1)
    /\ Returned /\ ret = -1 => (retry /\ canonicalid = 0 /\ credit = -1)
    /\ Returned /\ ret = 0 =>
           (~retry /\ canonicalid = ResultId(1) /\ credit = Credit(solutions))
    /\ Returned => (retry <=> ret = -1)

\* A pass that accepted a solution and failed for a gap in the coverage.
C28_Witness ==
    /\ Returned /\ ret = -1 /\ retry
    /\ solutions # <<>>
    /\ canonicalid = 0 /\ credit = -1

C28_WitnessSuccess ==
    /\ Returned /\ ret = 0 /\ ~retry
    /\ canonicalid = ResultId(1) /\ credit > 0

Range(sol) == sol.start_idx..sol.end_idx

\* Indices of accepted solutions that an earlier accepted solution had
\* claimed, counted once per solution that repeats them.
RECURSIVE Overlapped(_)
Overlapped(sols) ==
    IF sols = <<>> THEN 0
    ELSE LET earlier == SubSeq(sols, 1, Len(sols) - 1)
             claimed == UNION {Range(earlier[k]) : k \in 1..Len(earlier)}
         IN  Overlapped(earlier)
             + Cardinality(Range(sols[Len(sols)]) \cap claimed)

PairwiseDisjoint(sols) ==
    \A j \in 1..Len(sols), k \in 1..Len(sols) :
        j # k => Range(sols[j]) \cap Range(sols[k]) = {}

AllWithin(sols, m) == \A k \in 1..Len(sols) : Range(sols[k]) \subseteq 0..m

\* C29: after a successful merge the credit is at least 10 * (max_idx + 1),
\* with equality exactly when the accepted solutions are pairwise disjoint
\* and lie within [0, max_idx]; it is 10 per covered index plus 10 per
\* index that an accepted solution repeats.
C29_CreditLowerBound ==
    Returned /\ ret = 0 =>
        /\ credit >= 10 * (max_idx + 1)
        /\ credit = 10 * (max_idx + 1)
              <=> (PairwiseDisjoint(solutions) /\ AllWithin(solutions, max_idx))
        /\ credit = 10 * Cardinality(DOMAIN component_coverage)
                    + 10 * Overlapped(solutions)

\* Two accepted solutions that share an index.
C29_Witness ==
    /\ Returned /\ ret = 0
    /\ Len(solutions) = 2
    /\ Overlapped(solutions) > 0
    /\ credit = 10 * (max_idx + 1) + 10 * Overlapped(solutions)

\* An accepted solution that starts below component 0.
C29_WitnessBelowZero ==
    /\ Returned /\ ret = 0
    /\ ~AllWithin(solutions, max_idx)
    /\ PairwiseDisjoint(solutions)
    /\ credit > 10 * (max_idx + 1)

C29_WitnessEquality ==
    /\ Returned /\ ret = 0
    /\ Len(solutions) = 2
    /\ credit = 10 * (max_idx + 1)

(***************************************************************************)
(* The tasks read_input accepts                                            *)
(***************************************************************************)
InputAccepted == spc = "prepare"

\* C30: for every task that read_input accepts, 1 <= n <= MAX_DIM and the
\* component range satisfies 0 <= start_idx <= end_idx <= n - 1, so that
\* every component compute_solution evaluates, and every state a walk
\* starts in, lies inside the declared system; a task whose range falls
\* outside is rejected.
C30_AcceptedRangeInsideSystem ==
    InputAccepted =>
        /\ 1 <= data.n /\ data.n <= MAX_DIM
        /\ 0 <= data.start_idx
        /\ data.start_idx <= data.end_idx
        /\ data.end_idx <= data.n - 1
====
